---- MODULE Spec2Model ----
(***************************************************************************)
(* Model of the fin-catch offline-first sync engine                        *)
(* (apps/tauri/src-tauri/src/db.rs and sync.rs, with the command layer of  *)
(* fin-catch-app/src-tauri/src/lib.rs and the embedded server's            *)
(* /api/sync/now handler of apps/native/src-tauri/src/web_server.rs).      *)
(*                                                                         *)
(* Abstractions, stated once:                                              *)
(*  - every row keeps one domain field (name / symbol / amount); the other *)
(*    domain columns are copied the same way and never read by the engine; *)
(*  - a non-null synced_at is the single token Stamp: the engine only ever *)
(*    tests synced_at for NULL;                                            *)
(*  - created_at / payment_date are not kept, so the ORDER BY of the list  *)
(*    queries is a fixed order of the ids;                                 *)
(*  - SQLite enforces FOREIGN KEY clauses only when the foreign_keys       *)
(*    pragma is on.  db.rs never sets it, so whether it is on is decided   *)
(*    by the SQLite build the crate is linked with: foreign_keys is chosen *)
(*    in Init and never changes.                                           *)
(***************************************************************************)
EXTENDS Integers, Sequences, FiniteSets, TLC

NULL == "NULL"
Stamp == "ts"

\* ---- bounds of the model ------------------------------------------------
PIds == {"p1", "p2"}
EIds == {"e1", "e2"}
CIds == {"c1"}
IdOrder == <<"p1", "p2", "e1", "e2", "c1">>
Vals == {"a"}
MaxVersion == 3
MaxBatchLen == 3
MaxPullLen == 1
Callers == {"command", "web"}

\* ---- table names --------------------------------------------------------
T_PORTFOLIOS == "portfolios"
T_ENTRIES == "portfolio_entries"
T_PAYMENTS == "bond_coupon_payments"

VARIABLES
    db,             \* the three entity tables: [portfolios, entries, payments]
    sync_metadata,  \* the checkpoint table: key -> [checkpoint_updated_at, checkpoint_id]
    foreign_keys,   \* whether the linked SQLite enforces FOREIGN KEY clauses
    pc,             \* per caller: position inside sync_now ("idle" / "await")
    local_changes,  \* per caller: the outbound batch held across the network await
    result,         \* per caller: outcome of the sync_now that returned last,
                    \* forgotten at the next command
    saved,          \* history: the checkpoint last handed to save_checkpoint, and
                    \* whether a save has overwritten a different checkpoint
    last,           \* history: the last run of the Apply Engine on its own
    token,          \* session.rs: SessionManager.token, an Option<String>
    issued,         \* history: the tokens generate_token has returned
    validated,      \* history: the last validate_token call and its answer
    mapper,         \* sync_table_map.rs: the table names handed to the mapper
                    \* and what it returned
    server_handle,  \* web_server.rs: SERVER_HANDLE, an Option<ServerHandle>
    threads,        \* the server threads that are bound to the port and serving
    starting,       \* the start_browser_sync calls between their check of the
                    \* handle and their start_web_server
    browser_sync,   \* history: what the last start/stop_browser_sync returned
    served          \* history: the last HTTP request and what became of it

\* The embedded server (web_server.rs and its commands in lib.rs).
web == <<server_handle, threads, starting, browser_sync, served>>

\* The state of the apps/native crate (session.rs, sync_table_map.rs,
\* web_server.rs).
native == <<token, issued, validated, mapper, server_handle, threads, starting, browser_sync,
          served>>

vars == <<db, sync_metadata, foreign_keys, pc, local_changes, result, saved, last,
          token, issued, validated, mapper, server_handle, threads, starting, browser_sync,
          served>>

\* ---- small helpers ------------------------------------------------------
Put(f, k, v) == [x \in (DOMAIN f) \cup {k} |-> IF x = k THEN v ELSE f[x]]

Remove(f, S) == [x \in (DOMAIN f) \ S |-> f[x]]

EmptyMap == [x \in {} |-> x]

\* The ids of S in the fixed listing order.
Listed(S) == SelectSeq(IdOrder, LAMBDA x : x \in S)

Ok(d) == [ok |-> TRUE, db |-> d]

Err(d) == [ok |-> FALSE, db |-> d]

EmptyDb == [portfolios |-> EmptyMap, entries |-> EmptyMap, payments |-> EmptyMap]

\* ---- db.rs: rows ----------------------------------------------------------
\* struct Portfolio / PortfolioEntry / BondCouponPayment plus the deleted column.
PortfolioRow(name, version, synced) ==
    [name |-> name, sync_version |-> version, synced_at |-> synced, deleted |-> FALSE]

EntryRow(pid, symbol, version, synced) ==
    [portfolio_id |-> pid, symbol |-> symbol, sync_version |-> version,
     synced_at |-> synced, deleted |-> FALSE]

PaymentRow(eid, amount, version, synced) ==
    [entry_id |-> eid, amount |-> amount, sync_version |-> version,
     synced_at |-> synced, deleted |-> FALSE]

\* ---- db.rs: SQL statements ----------------------------------------------
\* DELETE FROM bond_coupon_payments WHERE <S>
SqlDeletePayments(d, S) == [d EXCEPT !.payments = Remove(@, S)]

\* DELETE FROM portfolio_entries WHERE <S>; ON DELETE CASCADE reaches the
\* payments of the removed entries when foreign keys are enforced.
SqlDeleteEntries(d, fk, S) ==
    LET gone == S \cap DOMAIN d.entries
        kids == {c \in DOMAIN d.payments : d.payments[c].entry_id \in gone}
    IN  [d EXCEPT !.entries = Remove(@, S),
                  !.payments = IF fk THEN Remove(@, kids) ELSE @]

\* DELETE FROM portfolios WHERE <S>, cascading when foreign keys are enforced.
SqlDeletePortfolios(d, fk, S) ==
    LET gone == S \cap DOMAIN d.portfolios
        kids == {e \in DOMAIN d.entries : d.entries[e].portfolio_id \in gone}
        d1 == IF fk THEN SqlDeleteEntries(d, fk, kids) ELSE d
    IN  [d1 EXCEPT !.portfolios = Remove(@, S)]

\* ---- db.rs: Database methods --------------------------------------------
create_portfolio(d, id, p) ==
    IF id \in DOMAIN d.portfolios THEN Err(d)
    ELSE Ok([d EXCEPT !.portfolios = Put(@, id, p)])

get_portfolio_ok(d, id) == id \in DOMAIN d.portfolios

list_portfolios(d) ==
    Listed({p \in DOMAIN d.portfolios : ~d.portfolios[p].deleted})

update_portfolio(d, id, p) ==
    IF id \in DOMAIN d.portfolios
    THEN Ok([d EXCEPT !.portfolios[id].name = p.name,
                      !.portfolios[id].synced_at = NULL,
                      !.portfolios[id].sync_version = @ + 1])
    ELSE Ok(d)

\* A delete_portfolio whose cascade stops at the entries.
delete_portfolio_without_payments(d, id) ==
    Ok([d EXCEPT
        !.entries = [e \in DOMAIN d.entries |->
            IF d.entries[e].portfolio_id = id
            THEN [d.entries[e] EXCEPT !.deleted = TRUE, !.synced_at = NULL]
            ELSE d.entries[e]],
        !.portfolios = [p \in DOMAIN d.portfolios |->
            IF p = id
            THEN [d.portfolios[p] EXCEPT !.deleted = TRUE, !.synced_at = NULL]
            ELSE d.portfolios[p]]])

delete_portfolio(d, id) ==
    LET es == {e \in DOMAIN d.entries : d.entries[e].portfolio_id = id}
        cs == {c \in DOMAIN d.payments : d.payments[c].entry_id \in es}
    IN  Ok([portfolios |-> [p \in DOMAIN d.portfolios |->
                IF p = id
                THEN [d.portfolios[p] EXCEPT !.deleted = TRUE, !.synced_at = NULL]
                ELSE d.portfolios[p]],
            entries |-> [e \in DOMAIN d.entries |->
                IF e \in es
                THEN [d.entries[e] EXCEPT !.deleted = TRUE, !.synced_at = NULL]
                ELSE d.entries[e]],
            payments |-> [c \in DOMAIN d.payments |->
                IF c \in cs
                THEN [d.payments[c] EXCEPT !.deleted = TRUE, !.synced_at = NULL]
                ELSE d.payments[c]]])

create_entry(d, fk, id, e) ==
    IF id \in DOMAIN d.entries THEN Err(d)
    ELSE IF fk /\ e.portfolio_id \notin DOMAIN d.portfolios THEN Err(d)
    ELSE Ok([d EXCEPT !.entries = Put(@, id, e)])

get_entry_ok(d, id) == id \in DOMAIN d.entries

list_entries(d, pid) ==
    Listed({e \in DOMAIN d.entries :
                d.entries[e].portfolio_id = pid /\ ~d.entries[e].deleted})

update_entry(d, id, e) ==
    IF id \in DOMAIN d.entries
    THEN Ok([d EXCEPT !.entries[id].symbol = e.symbol,
                      !.entries[id].synced_at = NULL,
                      !.entries[id].sync_version = @ + 1])
    ELSE Ok(d)

delete_entry(d, id) ==
    Ok([d EXCEPT
        !.payments = [c \in DOMAIN d.payments |->
            IF d.payments[c].entry_id = id
            THEN [d.payments[c] EXCEPT !.deleted = TRUE, !.synced_at = NULL]
            ELSE d.payments[c]],
        !.entries = [e \in DOMAIN d.entries |->
            IF e = id
            THEN [d.entries[e] EXCEPT !.deleted = TRUE, !.synced_at = NULL]
            ELSE d.entries[e]]])

create_coupon_payment(d, fk, id, c) ==
    IF id \in DOMAIN d.payments THEN Err(d)
    ELSE IF fk /\ c.entry_id \notin DOMAIN d.entries THEN Err(d)
    ELSE Ok([d EXCEPT !.payments = Put(@, id, c)])

list_coupon_payments(d, eid) ==
    Listed({c \in DOMAIN d.payments :
                d.payments[c].entry_id = eid /\ ~d.payments[c].deleted})

update_coupon_payment(d, id, c) ==
    IF id \in DOMAIN d.payments
    THEN Ok([d EXCEPT !.payments[id].amount = c.amount,
                      !.payments[id].synced_at = NULL,
                      !.payments[id].sync_version = @ + 1])
    ELSE Ok(d)

delete_coupon_payment(d, id) ==
    Ok([d EXCEPT !.payments = [c \in DOMAIN d.payments |->
            IF c = id
            THEN [d.payments[c] EXCEPT !.deleted = TRUE, !.synced_at = NULL]
            ELSE d.payments[c]]])

\* A set_entry_alerts that clears synced_at and leaves sync_version alone.
set_entry_alerts_unversioned(d, id) ==
    IF id \in DOMAIN d.entries
    THEN Ok([d EXCEPT !.entries[id].synced_at = NULL])
    ELSE Ok(d)

set_entry_alerts(d, id) ==
    IF id \in DOMAIN d.entries
    THEN Ok([d EXCEPT !.entries[id].synced_at = NULL,
                      !.entries[id].sync_version = @ + 1])
    ELSE Ok(d)

query_deleted_portfolios(d) ==
    Listed({p \in DOMAIN d.portfolios :
                d.portfolios[p].deleted /\ d.portfolios[p].synced_at = NULL})

\* A query without its deleted = 1 condition: every dirty entry.
query_deleted_entries_any(d) ==
    Listed({e \in DOMAIN d.entries : d.entries[e].synced_at = NULL})

query_deleted_entries(d) ==
    Listed({e \in DOMAIN d.entries :
                d.entries[e].deleted /\ d.entries[e].synced_at = NULL})

\* The _entry_id parameter is unused by the query.
query_deleted_payments(d, unused_entry_id) ==
    Listed({c \in DOMAIN d.payments :
                d.payments[c].deleted /\ d.payments[c].synced_at = NULL})

\* A hard_delete_portfolio of one statement: the portfolio row only, its
\* entries and their payments left to the store.
hard_delete_portfolio_row_only(d, fk, id) ==
    <<d, d, SqlDeletePortfolios(d, fk, {id})>>

\* The states after each of the three statements of hard_delete_portfolio.
hard_delete_portfolio_steps(d, fk, id) ==
    LET es == {e \in DOMAIN d.entries : d.entries[e].portfolio_id = id}
        cs == {c \in DOMAIN d.payments : d.payments[c].entry_id \in es}
        d1 == SqlDeletePayments(d, cs)
        d2 == SqlDeleteEntries(d1, fk, es)
        d3 == SqlDeletePortfolios(d2, fk, {id})
    IN  <<d1, d2, d3>>

hard_delete_portfolio(d, fk, id) == Ok(hard_delete_portfolio_steps(d, fk, id)[3])

\* The states after each of the two statements of hard_delete_entry.
hard_delete_entry_steps(d, fk, id) ==
    LET cs == {c \in DOMAIN d.payments : d.payments[c].entry_id = id}
        d1 == SqlDeletePayments(d, cs)
        d2 == SqlDeleteEntries(d1, fk, {id})
    IN  <<d1, d2>>

\* A hard_delete_entry that leaves the rows in place.
hard_delete_entry_kept(d, fk, id) == Ok(d)

hard_delete_entry(d, fk, id) == Ok(hard_delete_entry_steps(d, fk, id)[2])

hard_delete_payment_steps(d, id) == <<SqlDeletePayments(d, {id})>>

hard_delete_payment(d, id) == Ok(hard_delete_payment_steps(d, id)[1])

\* ---- sync.rs: SyncRecord and the Change Collector -------------------------
SyncRecord(table, id, data, version, deleted) ==
    [table_name |-> table, row_id |-> id, data |-> data,
     version |-> version, deleted |-> deleted]

Tombstone(table, id, version) == SyncRecord(table, id, EmptyMap, version, TRUE)

portfolio_to_sync_record(d, id) ==
    SyncRecord(T_PORTFOLIOS, id, [name |-> d.portfolios[id].name],
               d.portfolios[id].sync_version, FALSE)

entry_to_sync_record(d, id, pid) ==
    SyncRecord(T_ENTRIES, id,
               [portfolioSyncUuid |-> pid, symbol |-> d.entries[id].symbol],
               d.entries[id].sync_version, FALSE)

payment_to_sync_record(d, id, eid) ==
    SyncRecord(T_PAYMENTS, id,
               [entrySyncUuid |-> eid, amount |-> d.payments[id].amount],
               d.payments[id].sync_version, FALSE)

\* sync.rs 227-234: the active dirty payments of the entries es.
RECURSIVE CollectPayments(_, _)
CollectPayments(d, es) ==
    IF es = <<>> THEN <<>>
    ELSE LET e == Head(es)
             dirty == SelectSeq(list_coupon_payments(d, e),
                                LAMBDA c : d.payments[c].synced_at = NULL)
         IN  [i \in 1..Len(dirty) |-> payment_to_sync_record(d, dirty[i], e)]
             \o CollectPayments(d, Tail(es))

\* sync.rs 206-235: one iteration of the loop over the active portfolios.
CollectPortfolioBlock(d, p) ==
    LET dirty == SelectSeq(list_entries(d, p),
                           LAMBDA e : d.entries[e].synced_at = NULL)
        gone == query_deleted_payments(d, p)
    IN  [i \in 1..Len(dirty) |-> entry_to_sync_record(d, dirty[i], p)]
        \o [i \in 1..Len(gone) |->
                Tombstone(T_PAYMENTS, gone[i], d.payments[gone[i]].sync_version)]
        \o CollectPayments(d, list_entries(d, p))

RECURSIVE CollectBlocks(_, _)
CollectBlocks(d, ps) ==
    IF ps = <<>> THEN <<>>
    ELSE CollectPortfolioBlock(d, Head(ps)) \o CollectBlocks(d, Tail(ps))

collect_local_changes(d) ==
    LET dp == query_deleted_portfolios(d)
        ap == SelectSeq(list_portfolios(d),
                        LAMBDA p : d.portfolios[p].synced_at = NULL)
        de == query_deleted_entries(d)
    IN  [i \in 1..Len(dp) |->
            Tombstone(T_PORTFOLIOS, dp[i], d.portfolios[dp[i]].sync_version)]
        \o [i \in 1..Len(ap) |-> portfolio_to_sync_record(d, ap[i])]
        \o [i \in 1..Len(de) |->
                Tombstone(T_ENTRIES, de[i], d.entries[de[i]].sync_version)]
        \o CollectBlocks(d, list_portfolios(d))

\* ---- sync.rs: the Apply Engine ---------------------------------------------
\* A step result: ok, the store reached, and the stores after each SQL
\* statement that ran.
Done(d, steps) == [ok |-> TRUE, db |-> d, steps |-> steps]

Failed(d) == [ok |-> FALSE, db |-> d, steps |-> <<>>]

OfStatement(r) == IF r.ok THEN Done(r.db, <<r.db>>) ELSE Failed(r.db)

Field(data, k, default) == IF k \in DOMAIN data THEN data[k] ELSE default

apply_portfolio_change(d, fk, r) ==
    IF r.deleted
    THEN Done(hard_delete_portfolio(d, fk, r.row_id).db,
              hard_delete_portfolio_steps(d, fk, r.row_id))
    ELSE LET exists == get_portfolio_ok(d, r.row_id)
             portfolio == PortfolioRow(Field(r.data, "name", ""), r.version, Stamp)
         IN  IF exists
             THEN OfStatement(update_portfolio(d, r.row_id, portfolio))
             ELSE OfStatement(create_portfolio(d, r.row_id, portfolio))

apply_entry_change(d, fk, r) ==
    IF r.deleted
    THEN Done(hard_delete_entry(d, fk, r.row_id).db,
              hard_delete_entry_steps(d, fk, r.row_id))
    ELSE LET exists == get_entry_ok(d, r.row_id)
         IN  IF "portfolioSyncUuid" \notin DOMAIN r.data
             THEN Failed(d)
             ELSE LET entry == EntryRow(r.data["portfolioSyncUuid"],
                                        Field(r.data, "symbol", ""),
                                        r.version, Stamp)
                  IN  IF exists
                      THEN OfStatement(update_entry(d, r.row_id, entry))
                      ELSE OfStatement(create_entry(d, fk, r.row_id, entry))

\* list_coupon_payments(..).is_ok(): the query returns Ok with a possibly
\* empty list, whatever the id.
payment_exists(d, id) == TRUE

apply_payment_change(d, fk, r) ==
    IF r.deleted
    THEN Done(hard_delete_payment(d, r.row_id).db,
              hard_delete_payment_steps(d, r.row_id))
    ELSE LET exists == payment_exists(d, r.row_id)
         IN  IF "entrySyncUuid" \notin DOMAIN r.data
             THEN Failed(d)
             ELSE LET payment == PaymentRow(r.data["entrySyncUuid"],
                                            Field(r.data, "amount", ""),
                                            r.version, Stamp)
                  IN  IF exists
                      THEN OfStatement(update_coupon_payment(d, r.row_id, payment))
                      ELSE OfStatement(create_coupon_payment(d, fk, r.row_id, payment))

\* sync.rs 370-377 / 382-389: the dispatch on the table name.
apply_record(d, fk, r) ==
    CASE r.table_name = T_PORTFOLIOS -> apply_portfolio_change(d, fk, r)
      [] r.table_name = T_ENTRIES -> apply_entry_change(d, fk, r)
      [] r.table_name = T_PAYMENTS -> apply_payment_change(d, fk, r)
      [] OTHER -> Done(d, <<>>)

upsert_key(r) ==
    CASE r.table_name = T_PORTFOLIOS -> 0
      [] r.table_name = T_ENTRIES -> 1
      [] r.table_name = T_PAYMENTS -> 2
      [] OTHER -> 3

tombstone_key(r) ==
    CASE r.table_name = T_PAYMENTS -> 0
      [] r.table_name = T_ENTRIES -> 1
      [] r.table_name = T_PORTFOLIOS -> 2
      [] OTHER -> 3

\* The upserts taken in the order the server sent them.
sort_non_deleted_as_sent(rs) == rs

\* Vec::sort_by_key is a stable sort; the keys are 0..3.
sort_non_deleted(rs) ==
    SelectSeq(rs, LAMBDA r : upsert_key(r) = 0)
    \o SelectSeq(rs, LAMBDA r : upsert_key(r) = 1)
    \o SelectSeq(rs, LAMBDA r : upsert_key(r) = 2)
    \o SelectSeq(rs, LAMBDA r : upsert_key(r) = 3)

\* Tombstones sorted with the keys of the upserts: portfolios first.
sort_deleted_as_upserts(rs) == sort_non_deleted(rs)

sort_deleted(rs) ==
    SelectSeq(rs, LAMBDA r : tombstone_key(r) = 0)
    \o SelectSeq(rs, LAMBDA r : tombstone_key(r) = 1)
    \o SelectSeq(rs, LAMBDA r : tombstone_key(r) = 2)
    \o SelectSeq(rs, LAMBDA r : tombstone_key(r) = 3)

\* The two for loops: each record in turn, returning at the first error (`?`).
RECURSIVE apply_each(_, _, _)
apply_each(d, fk, rs) ==
    IF rs = <<>> THEN Done(d, <<>>)
    ELSE LET one == apply_record(d, fk, Head(rs))
         IN  IF ~one.ok THEN one
             ELSE LET rest == apply_each(one.db, fk, Tail(rs))
                  IN  [ok |-> rest.ok, db |-> rest.db,
                       steps |-> one.steps \o rest.steps]

apply_order(records) ==
    sort_non_deleted(SelectSeq(records, LAMBDA r : ~r.deleted))
    \o sort_deleted(SelectSeq(records, LAMBDA r : r.deleted))

apply_remote_changes(d, fk, records) == apply_each(d, fk, apply_order(records))

\* ---- sync.rs: mark_records_synced -------------------------------------------
\* UPDATE <table> SET synced_at = ?, sync_version = sync_version + 1 WHERE id = ?
SqlMarkSynced(d, table, id) ==
    CASE table = T_PORTFOLIOS /\ id \in DOMAIN d.portfolios ->
            [d EXCEPT !.portfolios[id].synced_at = Stamp,
                      !.portfolios[id].sync_version = @ + 1]
      [] table = T_ENTRIES /\ id \in DOMAIN d.entries ->
            [d EXCEPT !.entries[id].synced_at = Stamp,
                      !.entries[id].sync_version = @ + 1]
      [] table = T_PAYMENTS /\ id \in DOMAIN d.payments ->
            [d EXCEPT !.payments[id].synced_at = Stamp,
                      !.payments[id].sync_version = @ + 1]
      [] OTHER -> d

mark_one(d, fk, r) ==
    IF r.deleted
    THEN CASE r.table_name = T_PORTFOLIOS -> hard_delete_portfolio(d, fk, r.row_id).db
           [] r.table_name = T_ENTRIES -> hard_delete_entry(d, fk, r.row_id).db
           [] r.table_name = T_PAYMENTS -> hard_delete_payment(d, r.row_id).db
           [] OTHER -> d
    ELSE SqlMarkSynced(d, r.table_name, r.row_id)

\* fault is the position of the record whose statement the storage layer
\* fails (0: none fails); the `?` returns there and the records before it
\* stay marked.
RECURSIVE mark_from(_, _, _, _, _)
mark_from(d, fk, records, i, fault) ==
    IF i > Len(records) THEN Ok(d)
    ELSE IF i = fault THEN Err(d)
    ELSE mark_from(mark_one(d, fk, records[i]), fk, records, i + 1, fault)

mark_records_synced(d, fk, records, fault) == mark_from(d, fk, records, 1, fault)

\* ---- sync.rs: count_pending_changes ------------------------------------------
\* db.query_count("SELECT COUNT(*) FROM <table> WHERE synced_at IS NULL")
query_count_unsynced(rows) ==
    Cardinality({x \in DOMAIN rows : rows[x].synced_at = NULL})

\* The pending_changes field of get_sync_status.
count_pending_changes(d) ==
    query_count_unsynced(d.portfolios)
    + query_count_unsynced(d.entries)
    + query_count_unsynced(d.payments)

\* ---- Checkpoint Manager -------------------------------------------------
\* Option<T>: None is the empty sequence, Some(x) the one-element sequence.
None == <<>>

Some(x) == <<x>>

\* chrono: DateTime<Utc>::to_rfc3339 writes the instant with the offset +00:00.
to_rfc3339(dt) == [text |-> "rfc3339", secs |-> dt.secs, nanos |-> dt.nanos,
                   offset |-> "+00:00"]

\* DateTime::parse_from_rfc3339(..).map(|dt| dt.with_timezone(&Utc))
parse_from_rfc3339(s) ==
    IF s \in [text : {"rfc3339"}, secs : Nat, nanos : Nat, offset : {"+00:00"}]
    THEN [ok |-> TRUE, value |-> Some([secs |-> s.secs, nanos |-> s.nanos])]
    ELSE [ok |-> FALSE, value |-> None]

\* db.rs get_checkpoint: the row of key 'global', None unless both columns are set.
db_get_checkpoint(meta) ==
    IF "global" \in DOMAIN meta
       /\ meta["global"].checkpoint_updated_at # None
       /\ meta["global"].checkpoint_id # None
    THEN Some(<<meta["global"].checkpoint_updated_at[1], meta["global"].checkpoint_id[1]>>)
    ELSE None

\* INSERT OR IGNORE in place of INSERT OR REPLACE: the first row is kept.
db_save_checkpoint_or_ignore(meta, updated_at, id) ==
    IF "global" \in DOMAIN meta THEN meta
    ELSE Put(meta, "global",
             [checkpoint_updated_at |-> Some(updated_at), checkpoint_id |-> Some(id)])

\* db.rs save_checkpoint: INSERT OR REPLACE ... VALUES ('global', ?1, ?2)
db_save_checkpoint(meta, updated_at, id) ==
    Put(meta, "global",
        [checkpoint_updated_at |-> Some(updated_at), checkpoint_id |-> Some(id)])

\* sync.rs get_checkpoint: Ok(None), Ok(Some(checkpoint)) or a parse error.
get_checkpoint(meta) ==
    LET row == db_get_checkpoint(meta)
    IN  IF row = None THEN [ok |-> TRUE, value |-> None]
        ELSE LET t == parse_from_rfc3339(row[1][1])
             IN  IF t.ok
                 THEN [ok |-> TRUE,
                       value |-> Some([updated_at |-> t.value[1], id |-> row[1][2]])]
                 ELSE [ok |-> FALSE, value |-> None]

save_checkpoint(meta, checkpoint) ==
    db_save_checkpoint(meta, to_rfc3339(checkpoint.updated_at), checkpoint.id)

\* ---- inputs ---------------------------------------------------------------
\* Records the server can send: an upsert and a tombstone for each row of the
\* chain p1 <- e1 <- c1, the upserts carrying the server's version and the
\* field value v.
InVersion == MaxVersion - 1

UpsertP(v) == SyncRecord(T_PORTFOLIOS, "p1", [name |-> v], InVersion, FALSE)

UpsertE(v) == SyncRecord(T_ENTRIES, "e1", [portfolioSyncUuid |-> "p1", symbol |-> v],
                         InVersion, FALSE)

UpsertC(v) == SyncRecord(T_PAYMENTS, "c1", [entrySyncUuid |-> "e1", amount |-> v],
                         InVersion, FALSE)

TombP == Tombstone(T_PORTFOLIOS, "p1", InVersion)

TombE == Tombstone(T_ENTRIES, "e1", InVersion)

TombC == Tombstone(T_PAYMENTS, "c1", InVersion)

InboundRecords == {UpsertP("b"), UpsertE("b"), UpsertC("b"), TombP, TombE, TombC}

\* What a pull brings during a sync cycle.
PullRecords == {UpsertP("a"), UpsertE("a"), TombE}

\* The sequences of at most n distinct records of S.
RECURSIVE BatchesUpTo(_, _)
BatchesUpTo(S, n) ==
    IF n = 0 THEN {<<>>}
    ELSE LET shorter == BatchesUpTo(S, n - 1)
             longest == {b \in shorter : Len(b) = n - 1}
         IN  shorter \cup
             UNION {{Append(b, r) : r \in S \ {b[i] : i \in 1..Len(b)}} : b \in longest}

InboundBatches == BatchesUpTo(InboundRecords, MaxBatchLen)

PullBatches == BatchesUpTo(PullRecords, MaxPullLen)

Checkpoints ==
    {[updated_at |-> [secs |-> 1, nanos |-> 0], id |-> "r1"],
     [updated_at |-> [secs |-> 2, nanos |-> 5], id |-> "r2"]}

\* ---- sync_table_map.rs: the Table Name Mapper ------------------------------
\* const TABLE_MAP: the (sync name, db name) pairs.
TABLE_MAP ==
    <<<<"portfolioEntries", "portfolio_entries">>,
      <<"bondCouponPayments", "bond_coupon_payments">>>>

\* Iterator::find returns the first element that matches: the least of the
\* matching positions.
First(hits) == CHOOSE i \in hits : \A j \in hits : i <= j

sync_to_db(sync_name) ==
    LET hits == {i \in 1..Len(TABLE_MAP) : TABLE_MAP[i][1] = sync_name}
    IN  IF hits = {} THEN sync_name ELSE TABLE_MAP[First(hits)][2]

\* A db_to_sync that returns every name as it is.
db_to_sync_as_is(db_name) == db_name

db_to_sync(db_name) ==
    LET hits == {i \in 1..Len(TABLE_MAP) : TABLE_MAP[i][2] = db_name}
    IN  IF hits = {} THEN db_name ELSE TABLE_MAP[First(hits)][1]

\* The table names of the wire protocol and of the local schema, and the
\* names handed to the mapper: those, a name of no table and the empty name.
WireNames == {"portfolios", "portfolioEntries", "bondCouponPayments"}

LocalNames == {T_PORTFOLIOS, T_ENTRIES, T_PAYMENTS}

TableNames == WireNames \cup LocalNames \cup {"users", ""}

MaxNames == 2

NameLists == UNION {[1..n -> TableNames] : n \in 1..MaxNames}

\* The mapper's history: the functions called so far, and the list of names
\* before the first call and after each call.
NoMap == [calls |-> <<>>, names |-> <<>>]

\* ---- session.rs: the SessionManager ---------------------------------------
\* A token is hex::encode of the random bytes: a string of fixed length over
\* the hex digits.  The model has two digits and tokens of TokenLen digits.
Digits == {0, 1}

TokenLen == 2

Tokens == [1..TokenLen -> Digits]

\* What a browser can present as its token: any string up to one digit
\* longer than a token, the empty string included.
Presented == UNION {[1..n -> Digits] : n \in 0..(TokenLen + 1)}

\* x ^ y and x | y on the digits.
Xor(x, y) == (x + y) % 2

BitOr(x, y) == IF x = 0 THEN y ELSE x

\* The fold of constant_time_eq over a.iter().zip(b.iter()), from position i.
RECURSIVE ZipFold(_, _, _, _)
ZipFold(a, b, i, acc) ==
    IF i > Len(a) \/ i > Len(b) THEN acc
    ELSE ZipFold(a, b, i + 1, BitOr(acc, Xor(a[i], b[i])))

\* A comparison without the length test: zip stops at the shorter string.
constant_time_eq_zip_only(a, b) == ZipFold(a, b, 1, 0) = 0

constant_time_eq(a, b) ==
    IF Len(a) # Len(b) THEN FALSE
    ELSE ZipFold(a, b, 1, 0) = 0

\* validate_token on the stored Option<String>.
validate_token(stored, t) ==
    IF stored = None THEN FALSE ELSE constant_time_eq(stored[1], t)

has_active_session(stored) == stored # None

NoCheck == [input |-> <<>>, answer |-> FALSE, called |-> FALSE]

\* ---- web_server.rs: the server handle and the security middleware -------------
\* A server that ignores the handle it holds.
is_server_running_never(handle) == FALSE

is_server_running(handle) == handle # None

\* The paths a browser asks for: the two open API routes, a route that
\* writes the store, the route that starts a sync cycle, and a static file.
Paths == {"/api/health", "/api/events", "/api/portfolios", "/api/sync/now", "/index.html"}

\* path.starts_with("/api/")
IsApiPath(path) == path \in {"/api/health", "/api/events", "/api/portfolios", "/api/sync/now"}

\* A middleware that lets every request with a token parameter through.
security_middleware_any_token(stored, path, query_token, host_ok, origin_ok) ==
    IF query_token # None THEN "next" ELSE "401"

\* security_middleware: "next" when the request is handed to its handler,
\* "401" when it is answered UNAUTHORIZED.  query_token is the Option of the
\* token parameter, host_ok and origin_ok say that the Host header and, on a
\* POST, the Origin header are absent or among the valid ones.
security_middleware(stored, path, query_token, host_ok, origin_ok) ==
    IF ~IsApiPath(path) THEN "next"
    ELSE IF path = "/api/health" \/ path = "/api/events" THEN "next"
    ELSE IF ~host_ok THEN "401"
    ELSE IF ~validate_token(stored, IF query_token = None THEN <<>> ELSE query_token[1])
    THEN "401"
    ELSE IF ~origin_ok THEN "401"
    ELSE "next"

NoRequest == [path |-> "", token |-> None, answer |-> "none"]

NoCall == [cmd |-> "none", ok |-> TRUE, error |-> "", token |-> None]

\* ---- state helpers ----------------------------------------------------------
Rows(d) ==
    {d.portfolios[p] : p \in DOMAIN d.portfolios}
    \cup {d.entries[e] : e \in DOMAIN d.entries}
    \cup {d.payments[c] : c \in DOMAIN d.payments}

\* sync_version is unbounded in the program; the model stops at MaxVersion.
VersionsBounded(d) == \A r \in Rows(d) : r.sync_version <= MaxVersion

NoResult == "none"

Failure(kind) == kind

NoRun == [op |-> "none", batch |-> <<>>, had |-> {}, upserted |-> TRUE, ok |-> TRUE,
          orphaned |-> {}, once |-> EmptyDb]

Init ==
    /\ db = EmptyDb
    /\ sync_metadata = EmptyMap
    /\ foreign_keys \in BOOLEAN
    /\ pc = [c \in Callers |-> "idle"]
    /\ local_changes = [c \in Callers |-> <<>>]
    /\ result = [c \in Callers |-> NoResult]
    /\ saved = [checkpoint |-> None, replaced |-> FALSE]
    /\ last = NoRun
    /\ token = None
    /\ issued = {}
    /\ validated = NoCheck
    /\ mapper = NoMap
    /\ server_handle = None
    /\ threads = {}
    /\ starting = {}
    /\ browser_sync = NoCall
    /\ served = NoRequest

\* ---- lib.rs: the CRUD commands --------------------------------------------
\* A command writes the store through one Database method; a method that
\* returns Err leaves the store as it was.
Command(r) ==
    /\ r.ok
    /\ r.db # db
    /\ VersionsBounded(r.db)
    /\ db' = r.db
    /\ last' = NoRun
    /\ result' = [c \in Callers |-> NoResult]
    /\ UNCHANGED <<sync_metadata, foreign_keys, pc, local_changes, saved>>
    /\ UNCHANGED native

\* create_*: the id is a new Uuid::new_v4, so it is the id of no row and of no
\* record held by a sync_now in progress; the row starts at version 1, dirty.
Fresh(id) ==
    /\ id \notin DOMAIN db.portfolios \cup DOMAIN db.entries \cup DOMAIN db.payments
    /\ \A c \in Callers : \A i \in 1..Len(local_changes[c]) :
            local_changes[c][i].row_id # id

CreatePortfolio(id, name) ==
    /\ Fresh(id)
    /\ Command(create_portfolio(db, id, PortfolioRow(name, 1, NULL)))

UpdatePortfolio(id, name) ==
    /\ Command(update_portfolio(db, id, PortfolioRow(name, 1, NULL)))

DeletePortfolio(id) ==
    /\ Command(delete_portfolio(db, id))

CreateEntry(id, pid, symbol) ==
    /\ Fresh(id)
    /\ Command(create_entry(db, foreign_keys, id, EntryRow(pid, symbol, 1, NULL)))

UpdateEntry(id, symbol) ==
    /\ Command(update_entry(db, id, EntryRow(NULL, symbol, 1, NULL)))

DeleteEntry(id) ==
    /\ Command(delete_entry(db, id))

SetEntryAlerts(id) ==
    /\ Command(set_entry_alerts(db, id))

CreateCouponPayment(id, eid, amount) ==
    /\ Fresh(id)
    /\ Command(create_coupon_payment(db, foreign_keys, id, PaymentRow(eid, amount, 1, NULL)))

UpdateCouponPayment(id, amount) ==
    /\ Command(update_coupon_payment(db, id, PaymentRow(NULL, amount, 1, NULL)))

DeleteCouponPayment(id) ==
    /\ Command(delete_coupon_payment(db, id))

Creates(ps, es, cs) ==
    \/ \E id \in ps, v \in Vals : CreatePortfolio(id, v)
    \/ \E id \in es, pid \in ps, v \in Vals : CreateEntry(id, pid, v)
    \/ \E id \in cs, eid \in es, v \in Vals : CreateCouponPayment(id, eid, v)

Updates(ps, es, cs) ==
    \/ \E id \in ps, v \in Vals : UpdatePortfolio(id, v)
    \/ \E id \in es, v \in Vals : UpdateEntry(id, v)
    \/ \E id \in es : SetEntryAlerts(id)
    \/ \E id \in cs, v \in Vals : UpdateCouponPayment(id, v)

Deletes(ps, es, cs) ==
    \/ \E id \in ps : DeletePortfolio(id)
    \/ \E id \in es : DeleteEntry(id)
    \/ \E id \in cs : DeleteCouponPayment(id)

\* ---- sync.rs: sync_now, one invocation per caller ---------------------------
\* lib.rs sync_now and web_server.rs api_sync_now lock the SyncService only to
\* clone it, then await sync_now on the clone.  Inside sync_now the store is
\* read and written by blocking calls; the await on client.delta is where
\* other commands and other invocations run.

\* sync.rs 90-99: the credential, server URL, app id or API key is missing.
SyncAuthError(c) ==
    /\ pc[c] = "idle"
    /\ result' = [result EXCEPT ![c] = Failure("auth")]
    /\ UNCHANGED <<db, sync_metadata, foreign_keys, pc, local_changes, saved, last>>
    /\ UNCHANGED native

\* A collect that stamps the rows it returns.
SyncStart_stamping(c) ==
    /\ pc[c] = "idle"
    /\ get_checkpoint(sync_metadata).ok
    /\ LET m == mark_records_synced(db, foreign_keys, collect_local_changes(db), 0)
       IN  /\ VersionsBounded(m.db)
           /\ db' = m.db
    /\ pc' = [pc EXCEPT ![c] = "await"]
    /\ local_changes' = [local_changes EXCEPT ![c] = collect_local_changes(db)]
    /\ result' = [result EXCEPT ![c] = NoResult]
    /\ UNCHANGED <<sync_metadata, foreign_keys, saved, last>>
    /\ UNCHANGED native

\* sync.rs 109-122: collect, read the checkpoint, send the request.
SyncStart(c) ==
    /\ pc[c] = "idle"
    /\ get_checkpoint(sync_metadata).ok
    /\ pc' = [pc EXCEPT ![c] = "await"]
    /\ local_changes' = [local_changes EXCEPT ![c] = collect_local_changes(db)]
    /\ result' = [result EXCEPT ![c] = NoResult]
    /\ UNCHANGED <<db, sync_metadata, foreign_keys, saved, last>>
    /\ UNCHANGED native

\* A sync_now that marks its batch before it knows the exchange succeeded.
SyncExchangeError_after_marking(c, kind) ==
    /\ pc[c] = "await"
    /\ LET m == mark_records_synced(db, foreign_keys, local_changes[c], 0)
       IN  /\ VersionsBounded(m.db)
           /\ db' = m.db
    /\ pc' = [pc EXCEPT ![c] = "idle"]
    /\ local_changes' = [local_changes EXCEPT ![c] = <<>>]
    /\ result' = [result EXCEPT ![c] = Failure(kind)]
    /\ UNCHANGED <<sync_metadata, foreign_keys, saved, last>>
    /\ UNCHANGED native

\* sync.rs 122-123: client.delta returns Err (transport failure, timeout,
\* or a response body that does not parse).
SyncExchangeError(c, kind) ==
    /\ pc[c] = "await"
    /\ pc' = [pc EXCEPT ![c] = "idle"]
    /\ local_changes' = [local_changes EXCEPT ![c] = <<>>]
    /\ result' = [result EXCEPT ![c] = Failure(kind)]
    /\ UNCHANGED <<db, sync_metadata, foreign_keys, saved, last>>
    /\ UNCHANGED native

\* A sync_now that saves the checkpoint as soon as the response has a pull.
SavesCheckpoint_on_arrival(m, a, pull) == pull # None

\* sync.rs 133-152: save_checkpoint is reached when the response has a pull
\* and neither mark_records_synced nor apply_remote_changes returned early.
SavesCheckpoint(m, a, pull) == m.ok /\ a.ok /\ pull # None

\* sync.rs 125-162: the response arrived.  push and pull are the Option
\* fields of the response; fault is the storage failure met while marking.
SyncResponse(c, push, pull, fault) ==
    /\ pc[c] = "await"
    /\ push = None => fault = 0
    /\ LET m == IF push = None THEN Ok(db)
                ELSE mark_records_synced(db, foreign_keys, local_changes[c], fault)
           a == IF pull = None \/ ~m.ok THEN Done(m.db, <<>>)
                ELSE apply_remote_changes(m.db, foreign_keys, pull[1].records)
           saving == SavesCheckpoint(m, a, pull)
       IN  /\ VersionsBounded(a.db)
           /\ db' = a.db
           /\ sync_metadata' = IF saving
                               THEN save_checkpoint(sync_metadata, pull[1].checkpoint)
                               ELSE sync_metadata
           /\ saved' = IF ~saving THEN saved
                       ELSE [checkpoint |-> Some(pull[1].checkpoint),
                             replaced |-> \/ saved.replaced
                                          \/ /\ saved.checkpoint # None
                                             /\ saved.checkpoint # Some(pull[1].checkpoint)]
           /\ result' = [result EXCEPT ![c] =
                  IF ~m.ok THEN Failure("mark")
                  ELSE IF ~a.ok THEN Failure("apply")
                  ELSE "ok"]
    /\ pc' = [pc EXCEPT ![c] = "idle"]
    /\ local_changes' = [local_changes EXCEPT ![c] = <<>>]
    /\ UNCHANGED <<foreign_keys, last>>
    /\ UNCHANGED native

\* The push results the server can give to the batch b: none, or the ids it
\* reports as conflicts (at most one record of the batch).
PushResults(b) ==
    {None} \cup {Some([conflicts |-> S]) :
                    S \in {{}} \cup {{b[i].row_id} : i \in 1..Len(b)}}

PullResults(cps) ==
    {None} \cup {Some([records |-> rs, checkpoint |-> cp]) :
                    rs \in PullBatches, cp \in cps}

\* sync_now reads of push.conflicts only its length, and nothing of pull once
\* marking has failed: the responses that differ only there are taken once.
Responses(b, cps) ==
    {<<push, pull, 0>> : push \in {None, Some([conflicts |-> {}])}, pull \in PullResults(cps)}
    \cup {<<push, None, 0>> : push \in PushResults(b)}
    \cup {<<Some([conflicts |-> {}]), Some([records |-> <<>>, checkpoint |-> cp]), fault>> :
                fault \in 1..Len(b), cp \in cps}

\* A sync_now of caller c against a server whose checkpoints are cps.
SyncNow(c, cps) ==
    \/ SyncAuthError(c)
    \/ SyncStart(c)
    \/ \E kind \in {"transport", "protocol"} : SyncExchangeError(c, kind)
    \/ \E r \in Responses(local_changes[c], cps) : SyncResponse(c, r[1], r[2], r[3])

\* The desktop application on one portfolio, entry and payment, against a
\* server that answers every pull with the same checkpoint.
Next ==
    \/ Creates({"p1"}, {"e1"}, {"c1"})
    \/ Updates({"p1"}, {"e1"}, {"c1"})
    \/ Deletes({"p1"}, {"e1"}, {"c1"})
    \/ SyncNow("command", {cp \in Checkpoints : cp.id = "r1"})

Spec == Init /\ [][Next]_vars

\* ---- the Apply Engine run on its own ----------------------------------------
\* The child rows of d whose parent row is not in d.
Dangling(d) ==
    {e \in DOMAIN d.entries : d.entries[e].portfolio_id \notin DOMAIN d.portfolios}
    \cup {c \in DOMAIN d.payments : d.payments[c].entry_id \notin DOMAIN d.entries}

\* The ids of the rows of d.
Present(d) == DOMAIN d.portfolios \cup DOMAIN d.entries \cup DOMAIN d.payments

\* What a run of apply_remote_changes on the batch B from the store d did:
\* the ids d had, whether the upsert loop and the whole run returned Ok, and
\* the children left without a parent by one of the statements of the
\* tombstone loop.  once is the store a second run started from.
Observe(op, d, fk, B) ==
    LET ups == apply_each(d, fk, sort_non_deleted(SelectSeq(B, LAMBDA r : ~r.deleted)))
        del == IF ups.ok
               THEN apply_each(ups.db, fk, sort_deleted(SelectSeq(B, LAMBDA r : r.deleted)))
               ELSE Done(ups.db, <<>>)
    IN  [op |-> op, batch |-> B, had |-> Present(d),
         upserted |-> ups.ok, ok |-> ups.ok /\ del.ok,
         orphaned |-> UNION {Dangling(del.steps[i]) \ Dangling(ups.db) :
                                i \in 1..Len(del.steps)},
         once |-> IF op = "again" THEN d ELSE EmptyDb]

Apply(B) ==
    /\ last.op = "none"
    /\ LET a == apply_remote_changes(db, foreign_keys, B)
       IN  /\ VersionsBounded(a.db)
           /\ db' = a.db
           /\ last' = Observe("apply", db, foreign_keys, B)
    /\ UNCHANGED <<sync_metadata, foreign_keys, pc, local_changes, result, saved>>
    /\ UNCHANGED native

\* The same batch once more, right after a run that succeeded.
ApplyAgain ==
    /\ last.op = "apply"
    /\ last.ok
    /\ LET a == apply_remote_changes(db, foreign_keys, last.batch)
       IN  /\ VersionsBounded(a.db)
           /\ db' = a.db
           /\ last' = Observe("again", db, foreign_keys, last.batch)
    /\ UNCHANGED <<sync_metadata, foreign_keys, pc, local_changes, result, saved>>
    /\ UNCHANGED native

\* The stores the runs start from are made by the create and delete commands
\* on one portfolio with two entries and a payment; a run ends the behaviour.
NextApply ==
    \/ last.op = "none" /\ Creates({"p1"}, EIds, CIds)
    \/ last.op = "none" /\ Deletes({"p1"}, EIds, CIds)
    \/ \E B \in InboundBatches : Apply(B)
    \/ ApplyAgain

SpecApply == Init /\ [][NextApply]_vars

\* ---- the sync cycle and its checkpoint ------------------------------------------
\* One portfolio edited locally, entries arriving by pull, and a server whose
\* checkpoint moves.
NextCheckpoint ==
    \/ \E v \in Vals : CreatePortfolio("p1", v)
    \/ \E v \in Vals : UpdatePortfolio("p1", v)
    \/ DeletePortfolio("p1")
    \/ SyncNow("command", Checkpoints)

SpecCheckpoint == Init /\ [][NextCheckpoint]_vars

\* ---- the store under local edits and acknowledged pushes -----------------------
\* The commands on one portfolio, entry and payment, and sync_now cycles whose
\* push is acknowledged and whose response carries no pull.
NextStore ==
    \/ Creates({"p1"}, {"e1"}, {"c1"})
    \/ Updates({"p1"}, {"e1"}, {"c1"})
    \/ Deletes({"p1"}, {"e1"}, {"c1"})
    \/ SyncStart("command")
    \/ SyncResponse("command", Some([conflicts |-> {}]), None, 0)

SpecStore == Init /\ [][NextStore]_vars

\* ---- sync_now invoked again and again --------------------------------------------
\* The caller keeps invoking sync_now and the exchange keeps succeeding: a
\* cycle that can start does start, and a cycle that waits for its response
\* gets an acknowledged push.
SpecLive ==
    /\ Init
    /\ [][NextStore]_vars
    /\ WF_vars(SyncStart("command"))
    /\ WF_vars(SyncResponse("command", Some([conflicts |-> {}]), None, 0))

\* ---- two callers: the desktop command and the embedded server's route -------
NextConcurrent ==
    \/ \E v \in Vals : CreatePortfolio("p1", v)
    \/ \E v \in Vals : UpdatePortfolio("p1", v)
    \/ DeletePortfolio("p1")
    \/ \E c \in Callers : SyncStart(c)
    \/ \E c \in Callers : SyncExchangeError(c, "transport")
    \/ \E c \in Callers, cp \in Checkpoints :
            SyncResponse(c, Some([conflicts |-> {}]),
                         Some([records |-> <<>>, checkpoint |-> cp]), 0)

SpecConcurrent == Init /\ [][NextConcurrent]_vars

\* ---- the order of an apply -------------------------------------------------------
\* Batches with two entries of the same portfolio, so that records of one
\* table meet in a batch, applied to the stores a portfolio and an entry make.
UpsertE2(v) == SyncRecord(T_ENTRIES, "e2", [portfolioSyncUuid |-> "p1", symbol |-> v],
                          InVersion, FALSE)

TombE2 == Tombstone(T_ENTRIES, "e2", InVersion)

OrderRecords ==
    {UpsertP("b"), UpsertE("b"), UpsertE2("b"), UpsertC("b"), TombP, TombE, TombE2, TombC}

OrderBatches == BatchesUpTo(OrderRecords, MaxBatchLen)

NextOrder ==
    \/ \E v \in Vals : last.op = "none" /\ CreatePortfolio("p1", v)
    \/ \E v \in Vals : last.op = "none" /\ CreateEntry("e1", "p1", v)
    \/ \E B \in OrderBatches : Apply(B)

SpecOrder == Init /\ [][NextOrder]_vars

\* ---- the records an apply is not written for ----------------------------------
\* A record of a table the engine does not have, an entry and a payment
\* without the field that names their parent, and an entry and a payment
\* under the table names of the wire protocol.
UnknownTable == SyncRecord("users", "e1", [name |-> "b"], InVersion, FALSE)

EntryNoParent == SyncRecord(T_ENTRIES, "e1", [symbol |-> "b"], InVersion, FALSE)

PaymentNoParent == SyncRecord(T_PAYMENTS, "c1", [amount |-> "b"], InVersion, FALSE)

WireEntry ==
    SyncRecord("portfolioEntries", "e1", [portfolioSyncUuid |-> "p1", symbol |-> "b"],
               InVersion, FALSE)

WirePayment ==
    SyncRecord("bondCouponPayments", "c1", [entrySyncUuid |-> "e1", amount |-> "b"],
               InVersion, FALSE)

IngestRecords ==
    {UpsertP("b"), UnknownTable, EntryNoParent, PaymentNoParent, WireEntry, WirePayment}

IngestBatches == BatchesUpTo(IngestRecords, MaxBatchLen)

NextIngest ==
    \/ \E v \in Vals : last.op = "none" /\ CreatePortfolio("p1", v)
    \/ \E v \in Vals : last.op = "none" /\ CreateEntry("e1", "p1", v)
    \/ \E B \in IngestBatches : Apply(B)

SpecIngest == Init /\ [][NextIngest]_vars

\* ---- the variables of the sync engine, left alone by the apps/native crate ----
engine == <<db, sync_metadata, foreign_keys, pc, local_changes, result, saved, last>>

\* ---- the Table Name Mapper on lists of table names ---------------------------
MaxCalls == 2

\* The names as the last call returned them.
CurrentNames == mapper.names[Len(mapper.names)]

SyncToDb ==
    /\ Len(mapper.calls) < MaxCalls
    /\ mapper' = [calls |-> Append(mapper.calls, "sync_to_db"),
                  names |-> Append(mapper.names,
                      [i \in 1..Len(CurrentNames) |-> sync_to_db(CurrentNames[i])])]
    /\ UNCHANGED <<engine, web, token, issued, validated>>

DbToSync ==
    /\ Len(mapper.calls) < MaxCalls
    /\ mapper' = [calls |-> Append(mapper.calls, "db_to_sync"),
                  names |-> Append(mapper.names,
                      [i \in 1..Len(CurrentNames) |-> db_to_sync(CurrentNames[i])])]
    /\ UNCHANGED <<engine, web, token, issued, validated>>

\* The mapper is handed any list of table names.
InitMapper ==
    /\ db = EmptyDb
    /\ sync_metadata = EmptyMap
    /\ foreign_keys \in BOOLEAN
    /\ pc = [c \in Callers |-> "idle"]
    /\ local_changes = [c \in Callers |-> <<>>]
    /\ result = [c \in Callers |-> NoResult]
    /\ saved = [checkpoint |-> None, replaced |-> FALSE]
    /\ last = NoRun
    /\ token = None
    /\ issued = {}
    /\ validated = NoCheck
    /\ server_handle = None
    /\ threads = {}
    /\ starting = {}
    /\ browser_sync = NoCall
    /\ served = NoRequest
    /\ mapper \in {[calls |-> <<>>, names |-> <<l>>] : l \in NameLists}

NextMapper ==
    \/ SyncToDb
    \/ DbToSync

SpecMapper == InitMapper /\ [][NextMapper]_vars

\* ---- the SessionManager under its three callers ---------------------------------
\* Each method holds the token's mutex for its whole body: one step each.

\* The number of generate_token calls is unbounded in the program; the model
\* stops at MaxTokens.
MaxTokens == 2

\* generate_token: thread_rng fills 32 bytes; a value of 256 random bits is
\* taken never to repeat, so t is a token no earlier call returned.
GenerateToken(t) ==
    /\ Cardinality(issued) < MaxTokens
    /\ t \notin issued
    /\ token' = Some(t)
    /\ issued' = issued \cup {t}
    /\ UNCHANGED <<engine, web, validated, mapper>>

ValidateToken(t) ==
    /\ validated' = [input |-> t, answer |-> validate_token(token, t), called |-> TRUE]
    /\ UNCHANGED <<engine, web, token, issued, mapper>>

ClearToken ==
    /\ token' = None
    /\ UNCHANGED <<engine, web, issued, validated, mapper>>

NextSession ==
    \/ \E t \in Tokens : GenerateToken(t)
    \/ \E t \in Presented : ValidateToken(t)
    \/ ClearToken

SpecSession == Init /\ [][NextSession]_vars

\* ---- lib.rs, web_server.rs: the embedded server ------------------------------
\* The start_browser_sync calls that may be in progress together.
Invocations == {"i1", "i2"}

\* The tokens the generator hands out in the runs of the embedded server,
\* and what a browser puts in its token parameter: nothing, the empty
\* string, or one of those tokens.
WebTokens == {t \in Tokens : \A i \in 2..TokenLen : t[i] = 0}

QueryTokens == {None, Some(<<>>)} \cup {Some(t) : t \in WebTokens}

AlreadyRunning == [cmd |-> "start", ok |-> FALSE,
                   error |-> "Browser sync server is already running", token |-> None]

\* lib.rs 355-358: start_browser_sync asks is_server_running, which takes
\* and releases the lock of SERVER_HANDLE; a call that finds a handle
\* returns the error, one that finds none goes on to start_web_server.
StartBrowserSync(i) ==
    /\ i \notin starting
    /\ IF is_server_running(server_handle)
       THEN /\ browser_sync' = AlreadyRunning
            /\ UNCHANGED starting
       ELSE /\ starting' = starting \cup {i}
            /\ UNCHANGED browser_sync
    /\ UNCHANGED <<engine, token, issued, validated, mapper, server_handle, threads, served>>

\* web_server.rs 121-238: start_web_server generates the session token,
\* spawns the server thread and stores its handle; the thread serves if it
\* binds the port (it panics when the port is taken).  A thread is named by
\* the token that was generated for it.
StartWebServer(i, t, binds) ==
    /\ i \in starting
    /\ Cardinality(issued) < MaxTokens
    /\ t \notin issued
    /\ starting' = starting \ {i}
    /\ token' = Some(t)
    /\ issued' = issued \cup {t}
    /\ threads' = IF binds /\ threads = {} THEN {t} ELSE threads
    /\ server_handle' = Some(t)
    /\ browser_sync' = [cmd |-> "start", ok |-> TRUE, error |-> "", token |-> Some(t)]
    /\ UNCHANGED <<engine, validated, mapper, served>>

\* lib.rs 402-411, web_server.rs 241-246 and 80-107: stop_web_server takes
\* the handle and, if there was one, shuts its thread down and joins it;
\* then the session token is cleared.
StopBrowserSync ==
    /\ server_handle' = None
    /\ threads' = IF server_handle = None THEN threads ELSE threads \ {server_handle[1]}
    /\ token' = None
    /\ browser_sync' = [cmd |-> "stop", ok |-> TRUE, error |-> "", token |-> None]
    /\ UNCHANGED <<engine, issued, validated, mapper, starting, served>>

\* A request to the serving thread: the middleware, then, if it lets the
\* request through, the handler of the route (web_server.rs 531-548
\* api_create_portfolio, 489-524 api_sync_now up to the exchange).
WebRequest(path, query_token, host_ok, origin_ok) ==
    /\ threads # {}
    /\ LET answer == security_middleware(token, path, query_token, host_ok, origin_ok)
       IN  /\ served' = [path |-> path, token |-> query_token, answer |-> answer]
           /\ IF answer = "next" /\ path = "/api/portfolios"
              THEN /\ db' = create_portfolio(db, "p1", PortfolioRow("a", 1, NULL)).db
                   /\ UNCHANGED <<sync_metadata, foreign_keys, pc, local_changes, result,
                                  saved, last>>
              ELSE IF answer = "next" /\ path = "/api/sync/now"
              THEN /\ pc["web"] = "idle"
                   /\ get_checkpoint(sync_metadata).ok
                   /\ pc' = [pc EXCEPT !["web"] = "await"]
                   /\ local_changes' = [local_changes EXCEPT !["web"] =
                                            collect_local_changes(db)]
                   /\ result' = [result EXCEPT !["web"] = NoResult]
                   /\ UNCHANGED <<db, sync_metadata, foreign_keys, saved, last>>
              ELSE UNCHANGED engine
    /\ UNCHANGED <<token, issued, validated, mapper, server_handle, threads, starting,
                   browser_sync>>

NextWeb ==
    \/ \E i \in Invocations : StartBrowserSync(i)
    \/ \E i \in Invocations : \E t \in WebTokens : \E binds \in BOOLEAN :
            StartWebServer(i, t, binds)
    \/ StopBrowserSync
    \/ \E path \in Paths : \E q \in QueryTokens : \E host_ok \in BOOLEAN :
            \E origin_ok \in BOOLEAN : WebRequest(path, q, host_ok, origin_ok)
    \/ SyncResponse("web", Some([conflicts |-> {}]), None, 0)
    \/ SyncExchangeError("web", "transport")

SpecWeb == Init /\ [][NextWeb]_vars

\* ---- properties ---------------------------------------------------------------
Range(q) == {q[i] : i \in 1..Len(q)}

\* The ids of the dirty rows of d (synced_at IS NULL).
DirtyIds(d) ==
    {p \in DOMAIN d.portfolios : d.portfolios[p].synced_at = NULL}
    \cup {e \in DOMAIN d.entries : d.entries[e].synced_at = NULL}
    \cup {c \in DOMAIN d.payments : d.payments[c].synced_at = NULL}

\* The rows are as the application's screens make them: every entry under a
\* portfolio row and every payment under an entry row, and no live row under
\* a soft-deleted parent.
WellFormed(d) ==
    /\ \A e \in DOMAIN d.entries :
            /\ d.entries[e].portfolio_id \in DOMAIN d.portfolios
            /\ d.portfolios[d.entries[e].portfolio_id].deleted => d.entries[e].deleted
    /\ \A c \in DOMAIN d.payments :
            /\ d.payments[c].entry_id \in DOMAIN d.entries
            /\ d.entries[d.payments[c].entry_id].deleted => d.payments[c].deleted

\* C1 (SpecApply): applying a batch a second time, right after a successful
\* first application, succeeds and leaves the store exactly as the first
\* application left it.
IdempotentApply ==
    last.op = "again" => last.ok /\ db = last.once

\* C2 (SpecApply): a batch that holds an upsert of a portfolio, of an entry of
\* that portfolio and of a coupon payment of that entry, none of which the
\* store has, is applied without error whatever the order of its records.
OrderingInvariant ==
    (/\ last.op = "apply"
     /\ {UpsertP("b"), UpsertE("b"), UpsertC("b")} \subseteq Range(last.batch)
     /\ last.had \cap {"p1", "e1", "c1"} = {})
    => last.ok

\* The payment first, the portfolio last, into an empty store that enforces
\* foreign keys: the entry is inserted under the portfolio of the same batch.
OrderingWitness ==
    /\ last.op = "apply"
    /\ last.batch = <<UpsertC("b"), UpsertE("b"), UpsertP("b")>>
    /\ last.had = {}
    /\ foreign_keys
    /\ last.ok
    /\ "p1" \in DOMAIN db.portfolios
    /\ "e1" \in DOMAIN db.entries

\* C3 (SpecApply): a batch that holds the tombstones of a portfolio, of its
\* entry and of that entry's coupon payment, in any order: once its upserts
\* are applied, the tombstone loop returns no error and none of its statements
\* leaves an entry without its portfolio or a payment without its entry.
DeleteOrderingInvariant ==
    (/\ last.op = "apply"
     /\ {TombP, TombE, TombC} \subseteq Range(last.batch)
     /\ last.upserted)
    => last.ok /\ last.orphaned = {}

\* The portfolio's tombstone first, on a store without foreign-key enforcement
\* that holds the portfolio, both its entries and the payment.
DeleteOrderingWitness ==
    /\ last.op = "apply"
    /\ last.batch = <<TombP, TombE, TombC>>
    /\ {"p1", "e1", "e2", "c1"} \subseteq last.had
    /\ ~foreign_keys
    /\ last.ok
    /\ Present(db) = {}

\* C4 (Spec): every dirty row of the store appears exactly once in the batch
\* collect_local_changes returns (stated for the well-formed stores).
DirtySetCompleteness ==
    WellFormed(db) =>
        \A id \in DirtyIds(db) :
            Cardinality({i \in 1..Len(collect_local_changes(db)) :
                            collect_local_changes(db)[i].row_id = id}) = 1

\* C5 (Spec): collect, mark the collected batch synced, collect again, with no
\* local edit in between: marking succeeds, the second batch is empty and no
\* row is dirty (stated for the well-formed stores).
RoundTrip ==
    WellFormed(db) =>
        LET m == mark_records_synced(db, foreign_keys, collect_local_changes(db), 0)
        IN  /\ m.ok
            /\ collect_local_changes(m.db) = <<>>
            /\ DirtyIds(m.db) = {}

\* The step of caller c that ends a sync_now with a failure of one of kinds.
FailsWith(c, kinds) ==
    \/ "auth" \in kinds /\ result[c] # "auth" /\ result'[c] = "auth"
    \/ pc[c] = "await" /\ pc'[c] = "idle" /\ result'[c] \in kinds

\* C6 (SpecCheckpoint): the steps of a sync_now up to a failed exchange (the collect and
\* send, and the return on an authentication, transport or protocol failure)
\* leave the local store and the checkpoint as they were.
AllOrNothingBeforeAck ==
    [][\A c \in Callers :
          (\/ pc[c] = "idle" /\ pc'[c] = "await"
           \/ FailsWith(c, {"auth", "transport", "protocol"}))
          => db' = db /\ sync_metadata' = sync_metadata]_vars

\* A sync_now has failed in transport while rows were waiting to be pushed.
AllOrNothingWitness ==
    /\ result["command"] = "transport"
    /\ DirtyIds(db) # {}

\* C7 (SpecCheckpoint): a sync_now that fails, at whatever point, leaves the checkpoint
\* unchanged; the checkpoint changes only in the step that ends a sync_now
\* with success.
CheckpointOnlyAfterFullPull ==
    [][/\ \A c \in Callers :
            FailsWith(c, {"auth", "transport", "protocol", "mark", "apply"})
            => sync_metadata' = sync_metadata
       /\ sync_metadata' # sync_metadata
            => \E c \in Callers : pc[c] = "await" /\ pc'[c] = "idle" /\ result'[c] = "ok"]_vars

\* An apply has failed on a pulled batch, and the checkpoint of an earlier
\* sync_now is still the stored one.
CheckpointOnlyAfterFullPullWitness ==
    /\ result["command"] = "apply"
    /\ saved.checkpoint # None
    /\ get_checkpoint(sync_metadata).value = saved.checkpoint

\* C8 (SpecCheckpoint): get_checkpoint returns the checkpoint last saved, and none
\* exactly when none was ever saved; the checkpoint table never holds more
\* than one row, and holds one once a checkpoint was saved.
CheckpointMonotonicity ==
    /\ get_checkpoint(sync_metadata) = [ok |-> TRUE, value |-> saved.checkpoint]
    /\ DOMAIN sync_metadata \subseteq {"global"}
    /\ saved.checkpoint # None => Cardinality(DOMAIN sync_metadata) = 1

\* A save has replaced a different checkpoint.
CheckpointMonotonicityWitness ==
    /\ saved.replaced
    /\ Cardinality(DOMAIN sync_metadata) = 1

\* C9 (Spec): a record the server reports as a conflict is still a dirty row
\* of the store when the sync_now that pushed it has ended.
ConflictStaysDirty ==
    [][\A c \in Callers : \A r \in Range(local_changes[c]) :
          SyncResponse(c, Some([conflicts |-> {r.row_id}]), None, 0)
          => r.row_id \in DirtyIds(db')]_vars

\* C10 (SpecConcurrent): at most one sync_now is between its collect and the
\* end of its cycle.
AtMostOneSyncNow ==
    Cardinality({c \in Callers : pc[c] = "await"}) <= 1

\* The row of d whose id is id, whatever its table.
RowOf(d, id) ==
    IF id \in DOMAIN d.portfolios THEN d.portfolios[id]
    ELSE IF id \in DOMAIN d.entries THEN d.entries[id]
    ELSE d.payments[id]

\* The step of caller c that processes an acknowledged push with no pull, the
\* store being as it was when the batch was collected.
AckOfCollected(c) ==
    /\ SyncResponse(c, Some([conflicts |-> {}]), None, 0)
    /\ local_changes[c] = collect_local_changes(db)

\* C11 (SpecStore): after a cycle whose push is acknowledged, with no local
\* edit during the cycle, every active record of the batch names a row that is
\* clean and whose sync_version is the version sent plus one, the row of every
\* tombstone of the batch is absent, and every row that is not in the batch is
\* still there with its sync_version and synced_at (stated for the well-formed
\* stores).
PushAcknowledgement ==
    [][\A c \in Callers :
          AckOfCollected(c) /\ WellFormed(db) =>
            /\ \A r \in Range(local_changes[c]) :
                  IF r.deleted THEN r.row_id \notin Present(db')
                  ELSE /\ r.row_id \in Present(db')
                       /\ RowOf(db', r.row_id).synced_at # NULL
                       /\ RowOf(db', r.row_id).sync_version = r.version + 1
            /\ \A id \in Present(db) \ {r.row_id : r \in Range(local_changes[c])} :
                  /\ id \in Present(db')
                  /\ RowOf(db', id).sync_version = RowOf(db, id).sync_version
                  /\ RowOf(db', id).synced_at = RowOf(db, id).synced_at]_vars

\* The id of the parent row an inbound record names, None for a portfolio
\* record.
ParentOf(r) ==
    IF r.table_name = T_ENTRIES /\ "portfolioSyncUuid" \in DOMAIN r.data
    THEN Some(r.data["portfolioSyncUuid"])
    ELSE IF r.table_name = T_PAYMENTS /\ "entrySyncUuid" \in DOMAIN r.data
    THEN Some(r.data["entrySyncUuid"])
    ELSE None

\* C12 (SpecApply): after apply has processed a non-deleted record r, the row
\* of id r.row_id has sync_version r.version and a non-null synced_at, whether
\* the row was there before or not.
PulledUpsert ==
    (last.op = "apply" /\ last.ok) =>
        \A r \in Range(last.batch) :
            (~r.deleted /\ r.row_id \in Present(db)) =>
                /\ RowOf(db, r.row_id).sync_version = r.version
                /\ RowOf(db, r.row_id).synced_at # NULL

\* C13 (SpecApply): after apply has processed a batch of non-deleted records,
\* the store has a row for every record of the batch whose parent row is
\* present, in each of the three tables (stated for the well-formed stores).
UpsertById ==
    (/\ last.op = "apply"
     /\ last.ok
     /\ WellFormed(db)
     /\ \A r \in Range(last.batch) : ~r.deleted) =>
        \A r \in Range(last.batch) :
            (ParentOf(r) = None \/ ParentOf(r)[1] \in Present(db)) =>
                r.row_id \in Present(db)

\* C14 (SpecApply): when a batch holds a non-deleted record of a row the store
\* does not have, whose parent row is neither in the store nor upserted by the
\* batch, apply does not insert that row and does not stop: it returns Ok
\* (stated for the stores that enforce foreign keys).
MissingParentFailsRecord ==
    (last.op = "apply" /\ foreign_keys) =>
        \A r \in Range(last.batch) :
            (/\ ~r.deleted
             /\ r.row_id \notin last.had
             /\ ParentOf(r) # None
             /\ ParentOf(r)[1] \notin last.had
             /\ \A q \in Range(last.batch) : ~(~q.deleted /\ q.row_id = ParentOf(r)[1])) =>
                /\ last.ok
                /\ r.row_id \notin Present(db)

\* C15 (Spec): in every reachable state every entry's portfolio_id names a
\* portfolio row of the store and every payment's entry_id names an entry row
\* of the store.
ReferentialIntegrity ==
    Dangling(db) = {}

\* The ids of the rows under the portfolio, the entry or the payment id,
\* the row itself included.
SubtreeOfPortfolio(d, id) ==
    LET es == {e \in DOMAIN d.entries : d.entries[e].portfolio_id = id}
    IN  ({id} \cap DOMAIN d.portfolios) \cup es
        \cup {c \in DOMAIN d.payments : d.payments[c].entry_id \in es}

SubtreeOfEntry(d, id) ==
    ({id} \cap DOMAIN d.entries)
    \cup {c \in DOMAIN d.payments : d.payments[c].entry_id = id}

SubtreeOfPayment(d, id) == {id} \cap DOMAIN d.payments

\* From d to d2 no row was removed or added, the rows of S were flagged
\* deleted and made dirty, and nothing else changed.
SoftDeleted(d, d2, S) ==
    /\ DOMAIN d2.portfolios = DOMAIN d.portfolios
    /\ DOMAIN d2.entries = DOMAIN d.entries
    /\ DOMAIN d2.payments = DOMAIN d.payments
    /\ \A x \in Present(d) :
          RowOf(d2, x) = IF x \in S
                         THEN [RowOf(d, x) EXCEPT !.deleted = TRUE, !.synced_at = NULL]
                         ELSE RowOf(d, x)

\* C16 (SpecStore): delete_portfolio, delete_entry and delete_coupon_payment
\* remove no row; they set deleted and clear synced_at on the target row and
\* on every row under it, and change nothing else.
SoftCascadingDelete ==
    [][/\ \A id \in PIds :
            DeletePortfolio(id) => SoftDeleted(db, db', SubtreeOfPortfolio(db, id))
       /\ \A id \in EIds :
            DeleteEntry(id) => SoftDeleted(db, db', SubtreeOfEntry(db, id))
       /\ \A id \in CIds :
            DeleteCouponPayment(id) => SoftDeleted(db, db', SubtreeOfPayment(db, id))]_vars

\* A portfolio that had been pushed with its entry and its payment was
\* deleted: the three rows are still there, flagged deleted and dirty.
SoftCascadingDeleteWitness ==
    /\ Present(db) = {"p1", "e1", "c1"}
    /\ \A x \in Present(db) :
          /\ RowOf(db, x).deleted
          /\ RowOf(db, x).synced_at = NULL
          /\ RowOf(db, x).sync_version = 2

\* C17 (Spec): when marking one record of the outbound batch fails, every
\* other record of the batch is still marked: the row of an active record is
\* clean and the row of a tombstone is gone when the cycle ends.
PerRecordFailures ==
    [][\A c \in Callers : \A fault \in 1..Len(local_changes[c]) : \A cp \in Checkpoints :
          SyncResponse(c, Some([conflicts |-> {}]),
                       Some([records |-> <<>>, checkpoint |-> cp]), fault)
          => \A j \in (1..Len(local_changes[c])) \ {fault} :
                LET r == local_changes[c][j]
                IN  IF r.deleted THEN r.row_id \notin Present(db')
                    ELSE r.row_id \in Present(db')
                            => RowOf(db', r.row_id).synced_at # NULL]_vars

\* The stores of the example scenario: portfolio A is p1, entry B is e1.
ScenarioA ==
    [portfolios |-> [x \in {"p1"} |-> PortfolioRow("a", 1, NULL)],
     entries |-> EmptyMap,
     payments |-> EmptyMap]

ScenarioAB ==
    [ScenarioA EXCEPT !.entries = [x \in {"e1"} |-> EntryRow("p1", "a", 1, NULL)]]

ScenarioPushed ==
    [portfolios |-> [x \in {"p1"} |-> PortfolioRow("a", 2, Stamp)],
     entries |-> [x \in {"e1"} |-> EntryRow("p1", "a", 2, Stamp)],
     payments |-> EmptyMap]

ScenarioDeleted ==
    [ScenarioPushed EXCEPT !.entries["e1"].deleted = TRUE,
                           !.entries["e1"].synced_at = NULL]

ScenarioEnd == [ScenarioPushed EXCEPT !.entries = EmptyMap]

\* C18 (SpecStore): the example scenario, step by step.  From the empty store,
\* creating portfolio A gives a dirty row of version 1, and creating entry B
\* under it another; a sync_now whose push is acknowledged, with no pull,
\* leaves both rows clean at version 2; deleting B then makes collect return
\* exactly the tombstone of B; and the next acknowledged push leaves B absent
\* and A unchanged and clean.
ExampleScenario ==
    [][/\ (db = EmptyDb /\ CreatePortfolio("p1", "a")) => db' = ScenarioA
       /\ (db = ScenarioA /\ CreateEntry("e1", "p1", "a")) => db' = ScenarioAB
       /\ (db = ScenarioAB /\ AckOfCollected("command"))
            => db' = ScenarioPushed /\ result'["command"] = "ok"
       /\ (db = ScenarioPushed /\ DeleteEntry("e1"))
            => /\ db' = ScenarioDeleted
               /\ collect_local_changes(db') = <<Tombstone(T_ENTRIES, "e1", 2)>>
       /\ (db = ScenarioDeleted /\ AckOfCollected("command"))
            => db' = ScenarioEnd /\ result'["command"] = "ok"]_vars

\* B was pushed with A and then deleted: the batch to push is its tombstone.
ExampleScenarioWitness ==
    /\ db = ScenarioDeleted
    /\ collect_local_changes(db) = <<Tombstone(T_ENTRIES, "e1", 2)>>

\* C19 (SpecStore): every record collect emits names a row of the store and
\* is a tombstone exactly when that row is soft-deleted; a tombstone has an
\* empty data map, the id of the row and the row's current sync_version.
TombstoneShape ==
    \A r \in Range(collect_local_changes(db)) :
        /\ r.row_id \in Present(db)
        /\ r.deleted = RowOf(db, r.row_id).deleted
        /\ r.deleted => /\ DOMAIN r.data = {}
                        /\ r.version = RowOf(db, r.row_id).sync_version

\* The batch holds the tombstone of a soft-deleted row beside the record of
\* an active one.
TombstoneShapeWitness ==
    /\ \E r \in Range(collect_local_changes(db)) : r.deleted
    /\ \E r \in Range(collect_local_changes(db)) : ~r.deleted

\* C20 (SpecStore): the collect step of sync_now leaves every row and the
\* checkpoint as they were, and a second collect right after it returns the
\* batch the first returned.
CollectorReadOnly ==
    [][\A c \in Callers :
          SyncStart(c) =>
            /\ db' = db
            /\ sync_metadata' = sync_metadata
            /\ collect_local_changes(db') = local_changes'[c]]_vars

\* A collect has returned a batch of dirty rows, which are still dirty.
CollectorReadOnlyWitness ==
    /\ pc["command"] = "await"
    /\ local_changes["command"] # <<>>
    /\ local_changes["command"] = collect_local_changes(db)
    /\ {r.row_id : r \in Range(local_changes["command"])} \subseteq DirtyIds(db)

\* C21 (SpecMapper): sync_to_db and db_to_sync return a name for every name;
\* a name with no pair in TABLE_MAP ("portfolios", a name of no table) is
\* returned as it is; and on the three entity tables the two are inverses:
\* a wire name mapped to the local schema and back is the wire name, a local
\* name mapped to the wire and back is the local name.
TableNameMapper ==
    /\ \A k \in 1..Len(mapper.calls) : \A i \in 1..Len(mapper.names[k]) :
          LET in == mapper.names[k][i]
              out == mapper.names[k + 1][i]
          IN  /\ out \in TableNames
              /\ (mapper.calls[k] = "sync_to_db"
                    /\ in \notin {"portfolioEntries", "bondCouponPayments"}) => out = in
              /\ (mapper.calls[k] = "db_to_sync"
                    /\ in \notin {"portfolio_entries", "bond_coupon_payments"}) => out = in
    /\ mapper.calls = <<"sync_to_db", "db_to_sync">> =>
          \A i \in 1..Len(mapper.names[1]) :
              mapper.names[1][i] \in WireNames => mapper.names[3][i] = mapper.names[1][i]
    /\ mapper.calls = <<"db_to_sync", "sync_to_db">> =>
          \A i \in 1..Len(mapper.names[1]) :
              mapper.names[1][i] \in LocalNames => mapper.names[3][i] = mapper.names[1][i]

\* The two wire names that differ from the local ones were mapped to the
\* local schema and back.
TableNameMapperWitness ==
    /\ mapper.calls = <<"sync_to_db", "db_to_sync">>
    /\ mapper.names = <<<<"portfolioEntries", "bondCouponPayments">>,
                        <<"portfolio_entries", "bond_coupon_payments">>,
                        <<"portfolioEntries", "bondCouponPayments">>>>

\* The position of the record r in the batch B.
PositionIn(B, r) == CHOOSE i \in 1..Len(B) : B[i] = r

\* The place of a table in the hierarchy: portfolios above entries above
\* coupon payments.
Depth(r) ==
    CASE r.table_name = T_PORTFOLIOS -> 0
      [] r.table_name = T_ENTRIES -> 1
      [] r.table_name = T_PAYMENTS -> 2

\* C22 (SpecOrder): the order in which an apply call takes the records of its
\* batch holds each record once, every upsert before any tombstone, the
\* upserts by table portfolios, entries, coupon payments, the tombstones by
\* table coupon payments, entries, portfolios, and two records of one table
\* and one kind in the order the batch has them.
ApplyOrdering ==
    last.op = "apply" =>
        LET o == apply_order(last.batch)
        IN  /\ Len(o) = Len(last.batch)
            /\ Range(o) = Range(last.batch)
            /\ \A i, j \in 1..Len(o) : i < j =>
                  /\ ~(o[i].deleted /\ ~o[j].deleted)
                  /\ (~o[i].deleted /\ ~o[j].deleted) => Depth(o[i]) <= Depth(o[j])
                  /\ (o[i].deleted /\ o[j].deleted) => Depth(o[i]) >= Depth(o[j])
                  /\ (o[i].deleted = o[j].deleted /\ o[i].table_name = o[j].table_name)
                        => PositionIn(last.batch, o[i]) < PositionIn(last.batch, o[j])

\* The portfolio's tombstone sent between the upserts of its two entries: the
\* entries were upserted in the order sent, then the portfolio removed with
\* them.
ApplyOrderingWitness ==
    /\ last.op = "apply"
    /\ last.batch = <<UpsertE2("b"), TombP, UpsertE("b")>>
    /\ apply_order(last.batch) = <<UpsertE2("b"), UpsertE("b"), TombP>>
    /\ last.had = {"p1"}
    /\ last.ok
    /\ Present(db) = {}

\* The table of d the record r names has a row of id r.row_id.
InItsTable(d, r) ==
    CASE r.table_name = T_PORTFOLIOS -> r.row_id \in DOMAIN d.portfolios
      [] r.table_name = T_ENTRIES -> r.row_id \in DOMAIN d.entries
      [] r.table_name = T_PAYMENTS -> r.row_id \in DOMAIN d.payments
      [] OTHER -> FALSE

\* C23 (SpecApply): applying a tombstone whose row_id is the id of no row of
\* its table returns Ok and leaves every table of the store as it was.
AbsentTombstoneNoOp ==
    [][\A t \in {TombP, TombE, TombC} :
          (Apply(<<t>>) /\ ~InItsTable(db, t)) => (last'.ok /\ db' = db)]_vars

\* A record apply cannot use: its table is none of the three, under either
\* naming, or it is an upsert of an entry or a payment without the field that
\* names the parent.
Malformed(r) ==
    \/ r.table_name \notin LocalNames \cup WireNames
    \/ /\ ~r.deleted
       /\ r.table_name \in {T_ENTRIES, "portfolioEntries"}
       /\ "portfolioSyncUuid" \notin DOMAIN r.data
    \/ /\ ~r.deleted
       /\ r.table_name \in {T_PAYMENTS, "bondCouponPayments"}
       /\ "entrySyncUuid" \notin DOMAIN r.data

\* C24 (SpecIngest): an apply whose batch holds a malformed record returns Ok,
\* and the portfolio upsert of the same batch is applied: the store has the
\* portfolio.
MalformedRecordSkipped ==
    (last.op = "apply" /\ \E r \in Range(last.batch) : Malformed(r)) =>
        /\ last.ok
        /\ UpsertP("b") \in Range(last.batch) => "p1" \in DOMAIN db.portfolios

\* C25 (SpecIngest): an inbound entry or payment named by its wire table name
\* is written to the local table when its parent row is there, and every
\* record collect emits carries a wire table name.
WireNamesTranslated ==
    /\ (last.op = "apply" /\ last.ok) =>
          /\ (WireEntry \in Range(last.batch) /\ "p1" \in DOMAIN db.portfolios)
                => "e1" \in DOMAIN db.entries
          /\ (WirePayment \in Range(last.batch) /\ "e1" \in DOMAIN db.entries)
                => "c1" \in DOMAIN db.payments
    /\ \A r \in Range(collect_local_changes(db)) : r.table_name \in WireNames

\* A step of one of the CRUD commands.
LocalEdit ==
    \/ Creates({"p1"}, {"e1"}, {"c1"})
    \/ Updates({"p1"}, {"e1"}, {"c1"})
    \/ Deletes({"p1"}, {"e1"}, {"c1"})

\* No dirty row has reached the version at which the model stops counting.
DirtyBelowMaxVersion ==
    \A r \in Rows(db) : r.synced_at = NULL => r.sync_version < MaxVersion

\* C26 (SpecLive): every collect holds a record for each dirty row; and when
\* the local edits come to an end, while sync_now keeps being invoked and its
\* push acknowledged, from some cycle on no row is dirty: each dirty row was
\* acknowledged or hard-deleted (stated for the well-formed stores).
AtLeastOncePush ==
    /\ [][(SyncStart("command") /\ WellFormed(db)) =>
            DirtyIds(db) \subseteq {r.row_id : r \in Range(local_changes'["command"])}]_vars
    /\ ([](DirtyBelowMaxVersion /\ WellFormed(db)) /\ <>[][~LocalEdit]_vars)
          => <>[](DirtyIds(db) = {})

\* The row of the record r, sent as an active row, was updated or deleted by
\* a command after the batch was collected: an update raised its sync_version
\* above the version sent, a delete flagged it.
EditedSinceCollect(d, r) ==
    /\ ~r.deleted
    /\ r.row_id \in Present(d)
    /\ \/ RowOf(d, r.row_id).sync_version > r.version
       \/ RowOf(d, r.row_id).deleted

\* C27 (SpecStore): when the response of a cycle is processed, a row that was
\* updated or deleted by a command since the batch was collected is still
\* dirty afterwards, a deleted one still flagged deleted, and the next collect
\* has a record for it.
NoLostLocalEdit ==
    [][\A c \in Callers : \A r \in Range(local_changes[c]) :
          (/\ SyncResponse(c, Some([conflicts |-> {}]), None, 0)
           /\ EditedSinceCollect(db, r))
          => /\ r.row_id \in DirtyIds(db')
             /\ RowOf(db, r.row_id).deleted => RowOf(db', r.row_id).deleted
             /\ \E q \in Range(collect_local_changes(db')) : q.row_id = r.row_id]_vars

\* From d to d2 the row id was made dirty and its sync_version raised by one,
\* no row was added or removed, and no other row's sync_version or synced_at
\* changed.
MarkedDirty(d, d2, id) ==
    /\ id \in Present(d)
    /\ DOMAIN d2.portfolios = DOMAIN d.portfolios
    /\ DOMAIN d2.entries = DOMAIN d.entries
    /\ DOMAIN d2.payments = DOMAIN d.payments
    /\ RowOf(d2, id).synced_at = NULL
    /\ RowOf(d2, id).sync_version = RowOf(d, id).sync_version + 1
    /\ \A x \in Present(d) \ {id} :
          /\ RowOf(d2, x).synced_at = RowOf(d, x).synced_at
          /\ RowOf(d2, x).sync_version = RowOf(d, x).sync_version

\* C28 (SpecStore): update_portfolio, update_entry, update_coupon_payment and
\* set_entry_alerts on an existing row leave that row with synced_at NULL and
\* its sync_version one greater, and the sync columns of every other row as
\* they were.
UpdateMarksDirty ==
    [][/\ \A id \in PIds, v \in Vals :
            UpdatePortfolio(id, v) => MarkedDirty(db, db', id)
       /\ \A id \in EIds, v \in Vals :
            UpdateEntry(id, v) => MarkedDirty(db, db', id)
       /\ \A id \in EIds :
            SetEntryAlerts(id) => MarkedDirty(db, db', id)
       /\ \A id \in CIds, v \in Vals :
            UpdateCouponPayment(id, v) => MarkedDirty(db, db', id)]_vars

\* An entry pushed with its portfolio was updated: it is dirty at version 3
\* beside the portfolio, clean at version 2.
UpdateMarksDirtyWitness ==
    /\ "p1" \in DOMAIN db.portfolios
    /\ "e1" \in DOMAIN db.entries
    /\ db.entries["e1"] = EntryRow("p1", "a", 3, NULL)
    /\ db.portfolios["p1"] = PortfolioRow("a", 2, Stamp)

\* C29 (SpecStore): the pending_changes that get_sync_status reports is the
\* number of rows with synced_at NULL in the three tables, and it is the
\* number of records the next collect emits (stated for the well-formed
\* stores).
PendingChangesCount ==
    WellFormed(db) =>
        /\ count_pending_changes(db) = Cardinality(DirtyIds(db))
        /\ count_pending_changes(db) = Len(collect_local_changes(db))

\* C30 (SpecSession): whatever the order of the calls, validate_token(t)
\* answers true exactly when a token is stored and t is that token; after
\* generate_token the new token validates and nothing else does, none of the
\* tokens generated earlier; after clear_token nothing validates and
\* has_active_session is false.
SessionTokenValidity ==
    [][/\ \A t \in Presented :
            ValidateToken(t) => validated'.answer = (token = Some(t))
       /\ \A t \in Tokens :
            GenerateToken(t) =>
                /\ has_active_session(token')
                /\ \A u \in Presented : validate_token(token', u) <=> u = t
                /\ \A u \in issued : ~validate_token(token', u)
       /\ ClearToken =>
            /\ ~has_active_session(token')
            /\ \A u \in Presented : ~validate_token(token', u)]_vars

\* A second token was generated and the first one, presented again, was
\* rejected.
SessionTokenValidityWitness ==
    /\ Cardinality(issued) = 2
    /\ token # None
    /\ validated.called
    /\ validated.input \in issued
    /\ Some(validated.input) # token
    /\ ~validated.answer

\* No token a browser can present validates against the stored one.
NoTokenValid(stored) == \A t \in Presented : ~validate_token(stored, t)

Gated(path) == IsApiPath(path) /\ path \notin {"/api/health", "/api/events"}

\* The token parameter is the session token stored at this moment.
PresentsStored(query_token) ==
    /\ query_token # None
    /\ token # None
    /\ query_token[1] = token[1]

\* C32: API gate.  A request to a gated path reaches its handler only if its
\* token parameter is the session token stored at that moment; a request to
\* a gated path whose token is missing, stale or cleared is answered 401 and
\* leaves the Local Store and the sync cycles as they were.
APIGate ==
    [][((\E host_ok, origin_ok \in BOOLEAN :
            WebRequest(served'.path, served'.token, host_ok, origin_ok))
        /\ Gated(served'.path))
          => /\ served'.answer = "next" => PresentsStored(served'.token)
             /\ ~PresentsStored(served'.token)
                    => /\ served'.answer = "401"
                       /\ UNCHANGED engine]_vars

\* A stale token, issued by an earlier start and presented while a later
\* one is stored, was answered 401 on the route that writes the store, and
\* a server is serving under the stored token.
APIGateWitness ==
    /\ served.path = "/api/portfolios"
    /\ served.answer = "401"
    /\ served.token # None
    /\ token # None
    /\ threads # {}
    /\ served.token[1] \in issued
    /\ served.token[1] # token[1]

====
